---- MODULE Spec2Model ----
(***************************************************************************)
(* Sleep-aid ambient-audio controllers of dylancrsmith/SleepTracker.        *)
(*                                                                         *)
(* Variant A: src/lib/sleep-aid-audio-controller.ts  (SpecA)               *)
(* Variant B: src/unnamed/part_003                   (SpecB)               *)
(* The library functions around them (rate limiter, reminders, sleep-aid    *)
(* storage, streaks) each have a specification of their own further down.   *)
(*                                                                         *)
(* Both are single-threaded JavaScript classes whose async methods are      *)
(* interleaved at their awaits.  An in-flight async call is a record in a   *)
(* bag of pending continuations; its pc names the await it is suspended in. *)
(* One step of the model is one run-to-completion segment of JavaScript:    *)
(* a public call up to its first await, the settling of one awaited device  *)
(* promise followed by the code up to the next await, or one timer          *)
(* callback.  A device call takes effect when its promise settles.          *)
(***************************************************************************)
EXTENDS Integers, Sequences, FiniteSets, Bags, TLC

\* ---------------------------------------------------------------- bounds
MaxCalls == 2       \* public method calls made after the initial state
MaxFaults == 1      \* device promises that reject for an external reason
MaxDur == 2         \* durations passed by the caller are 1..MaxDur seconds
MaxVol == 1         \* volumes passed by the caller are 1..MaxVol (tenths)
MaxFades == 2       \* fade intervals scheduled at the same time
MaxSounds == 3      \* sounds in use at the same time
Stride == 40        \* interval callbacks of one fade folded into one step
MaxSeeks == 2       \* loop-restart seeks in flight at the same time
B_MaxCalls == 2     \* variant B: public method calls made after the initial state
B_MaxFaults == 1    \* variant B: device promises that reject for an external reason
B_MaxDur == 3       \* variant B: durations passed by the caller are 1..B_MaxDur seconds
B_MaxVol == 1       \* variant B: volumes passed by the caller are 0, 2, .. 2 * B_MaxVol
B_MaxSrc == 2       \* variant B: sources the caller chooses from
B_MaxFades == 2     \* variant B: fade intervals scheduled at the same time
B_MaxSounds == 3    \* variant B: sounds in use at the same time
B_Stride == 11      \* variant B: interval callbacks of one fade folded into one step
B_MaxCountdown == 10 \* variant B: the longest session of the countdown-only runs, seconds

\* ------------------------------------------------------ program constants
MANUAL_STOP_FADE_MS == 5000
TIMER_END_FADE_MS == 8000
START_FADE_MS == 3000
FADE_STEP_MS == 100
TIMER_FINAL_FADE_SECONDS == 8
B_FADE_STEPS == 22
B_START_FADE_MS == 2800
B_STOP_FADE_MS == 2200
B_RESET_FADE_MS == 1200
B_RESUME_FADE_MS == 1200
B_PAUSE_FADE_MS == 900
B_MIN_STEP_MS == 40
B_MS_PER_SECOND == 1000

Durations == 1..MaxDur
Volumes == 1..MaxVol
B_Durations == 1..B_MaxDur
B_Volumes == {2 * i : i \in 0..B_MaxVol}
B_Sources == 1..B_MaxSrc

Max(a, b) == IF a >= b THEN a ELSE b
Min(a, b) == IF a <= b THEN a ELSE b
\* Math.round of a non-negative quotient
Round(n, d) == (2 * n + d) \div (2 * d)

VARIABLES
    \* ---- Variant A: fields of SleepAidAudioController
    sound,              \* this.sound: 0 is null, else the id of a created sound
    countdownTimer,     \* this.countdownTimer is non-null
    fadeTimer,          \* this.fadeTimer: 0 is null, else the id of a fade interval
    loopSeekInProgress,
    isPlaying,
    isPaused,
    remainingSeconds,
    targetVolume,
    \* ---- Variant A: the platform (expo-av sounds, setInterval timers, promises)
    loaded,             \* ids of the sounds created and not unloaded
    cdLive,             \* countdown intervals scheduled and not cleared
    fades,              \* fade interval id -> its closure [live, step, steps, from, to]
    volumeOf,           \* sound id -> the gain last commanded to it, in hundredths
    tasks,              \* bag of suspended async calls
    \* ---- Variant A: environment counters and history
    ncalls,
    nfaults,
    autoStopped,        \* the sounds on which a countdown tick has invoked the timer-end stop
    secondStop,         \* a tick invoked the timer-end stop again on the same sound
    lateStop,           \* a tick invoked the timer-end stop after the teardown (no sound)
    stopDirty,          \* a stopManual call has settled and left the controller not idle
    stopMidLoad,        \* the last public call was a stopManual or dispose made while a
                        \* start was suspended in createAsync or playAsync
    \* ---- Variant B: fields of SleepAidAudioController
    activeSound,        \* this.activeSound: 0 is null
    B_fadeTimer,        \* this.fadeTimer: 0 is null, else the id of a fade interval
    B_countdownTimer,   \* this.countdownTimer is non-null
    state,              \* this.state: [isPlaying, isLoading, remainingSeconds, error]
    disposed,
    finalFadeStarted,
    currentVolume,
    B_targetVolume,
    currentSource,      \* this.currentSource: 0 is null
    \* ---- Variant B: the platform
    B_loaded,           \* ids of the sounds created and not unloaded
    srcOf,              \* sound id -> the source it was created from
    B_cdLive,           \* countdown intervals scheduled and not cleared
    B_fades,            \* fade interval id -> its closure [live, step, from, target, ms]
    B_tasks,            \* bag of suspended async calls
    \* ---- Variant B: environment counters and history
    B_ncalls,
    B_nfaults,
    overlap,            \* the source of a start called right after a start of another
                        \* source, while these two are the only calls made; else 0
    lateEffect,         \* after dispose(): a sound was retained, a timer scheduled, a device
                        \* call issued or a changed state emitted
    loadFailDirty,      \* a start whose createAsync or playAsync rejected ended not idle
    sessionFades,       \* times finalFadeStarted went false -> true in the current session
    countdownFades,     \* times finalFadeStarted went false -> true in the current countdown
    \* ---- the library functions around the controllers
    fadeRun,            \* one fade interval of fadeTo: [from, to, steps, step, gain]
    limiter,            \* the rate limiter: [max, windowMs, now, store, first, seen, last]
    reminders,          \* the reminder module: [stored, scheduled, nextId, tasks, ncalls]
    aidStore,           \* the sleep-aid state in AsyncStorage: [stored, tasks, done, ncalls]
    gamification        \* the gamification data: [currentStreak, longestStreak,
                        \* totalNightsLogged, lastLogDate, ncalls]

varsA == <<sound, countdownTimer, fadeTimer, loopSeekInProgress, isPlaying, isPaused,
           remainingSeconds, targetVolume, loaded, cdLive, fades, volumeOf,
           tasks, ncalls, nfaults, autoStopped, secondStop, lateStop, stopDirty,
           stopMidLoad>>

varsB == <<activeSound, B_fadeTimer, B_countdownTimer, state, disposed, finalFadeStarted,
           currentVolume, B_targetVolume, currentSource, B_loaded, srcOf, B_cdLive,
           B_fades, B_tasks, B_ncalls, B_nfaults, overlap, lateEffect, loadFailDirty,
           sessionFades, countdownFades>>

varsL == <<fadeRun, limiter, reminders, aidStore, gamification>>

vars == <<varsA, varsB, varsL>>

\* The state of variant A as one record, so that a sequence of statements is a
\* composition of functions on it.
WA == [sound |-> sound, countdownTimer |-> countdownTimer, fadeTimer |-> fadeTimer,
       loopSeekInProgress |-> loopSeekInProgress, isPlaying |-> isPlaying,
       isPaused |-> isPaused, remainingSeconds |-> remainingSeconds,
       targetVolume |-> targetVolume, loaded |-> loaded,
       cdLive |-> cdLive, fades |-> fades, volumeOf |-> volumeOf, tasks |-> tasks,
       ncalls |-> ncalls, nfaults |-> nfaults, autoStopped |-> autoStopped,
       secondStop |-> secondStop, lateStop |-> lateStop,
       stopDirty |-> stopDirty, stopMidLoad |-> stopMidLoad]

CommitA(w) ==
    /\ sound' = w.sound
    /\ countdownTimer' = w.countdownTimer
    /\ fadeTimer' = w.fadeTimer
    /\ loopSeekInProgress' = w.loopSeekInProgress
    /\ isPlaying' = w.isPlaying
    /\ isPaused' = w.isPaused
    /\ remainingSeconds' = w.remainingSeconds
    /\ targetVolume' = w.targetVolume
    /\ loaded' = w.loaded
    /\ cdLive' = w.cdLive
    /\ fades' = w.fades
    /\ volumeOf' = w.volumeOf
    /\ tasks' = w.tasks
    /\ ncalls' = w.ncalls
    /\ nfaults' = w.nfaults
    /\ autoStopped' = w.autoStopped
    /\ secondStop' = w.secondStop
    /\ lateStop' = w.lateStop
    /\ stopDirty' = w.stopDirty
    /\ stopMidLoad' = w.stopMidLoad
    /\ UNCHANGED <<varsB, varsL>>

NoFade == [live |-> FALSE, step |-> 0, steps |-> 0, from |-> 0, to |-> 0]

\* a volume of the caller (tenths) as a device gain (hundredths)
Gain(v) == 10 * v

\* A suspended async call: op is the public method (or "timerEnd" for the stop a
\* countdown tick started), pc the await it is suspended in, snd the sound the
\* awaited device call was issued on, fid the fade interval whose promise it awaits,
\* dur and vol the StartPlaybackInput of a start.
Task(op, pc, snd, fid, dur, vol) ==
    [op |-> op, pc |-> pc, snd |-> snd, fid |-> fid, dur |-> dur, vol |-> vol]

AddTask(w, t) == [w EXCEPT !.tasks = @ (+) SetToBag({t})]
DelTask(w, t) == [w EXCEPT !.tasks = @ (-) SetToBag({t})]

\* The controller as constructed (lines 29-37)
A_Constructed ==
    /\ sound = 0
    /\ countdownTimer = FALSE
    /\ isPlaying = FALSE
    /\ remainingSeconds = 0
    /\ targetVolume = 6
    /\ loaded = {}
    /\ cdLive = 0
    /\ volumeOf = [i \in 1..MaxSounds |-> 0]

\* The controller once a start(dur, vol) made on the constructed controller has
\* run alone to its end, before the first countdown tick.
A_StartedWith(volumes) ==
    \E dur \in Durations, vol \in volumes :
        /\ sound = 1
        /\ countdownTimer = TRUE
        /\ isPlaying = TRUE
        /\ remainingSeconds = dur
        /\ targetVolume = vol
        /\ loaded = {1}
        /\ cdLive = 1
        /\ volumeOf = [i \in 1..MaxSounds |-> IF i = 1 THEN Gain(vol) ELSE 0]

A_Started == A_StartedWith(Volumes)

\* The controller once a start(dur, 0.6) and then a pause() have each run alone
\* to their end: pause has cleared the countdown and set isPaused (lines 95-96),
\* and the device holds the gain the start fade ended on.
A_Paused ==
    \E dur \in Durations :
        /\ sound = 1
        /\ countdownTimer = FALSE
        /\ isPlaying = TRUE
        /\ isPaused = TRUE
        /\ remainingSeconds = dur
        /\ targetVolume = 6
        /\ loaded = {1}
        /\ cdLive = 0
        /\ volumeOf = [i \in 1..MaxSounds |-> IF i = 1 THEN Gain(6) ELSE 0]

\* Variant B as constructed (part_003 lines 21-35)
B_Constructed ==
    /\ activeSound = 0
    /\ B_countdownTimer = FALSE
    /\ state = [isPlaying |-> FALSE, isLoading |-> FALSE, remainingSeconds |-> 0, error |-> ""]
    /\ currentVolume = 0
    /\ B_targetVolume = 7
    /\ currentSource = 0
    /\ B_loaded = {}
    /\ srcOf = [i \in 1..B_MaxSounds |-> 0]
    /\ B_cdLive = 0

\* Variant B once a start(source, dur, vol) made on the constructed controller has
\* run alone to its end, before the first countdown tick.
B_StartedWith(durations) ==
    \E src \in {1}, dur \in durations, vol \in B_Volumes :
        /\ activeSound = 1
        /\ B_countdownTimer = TRUE
        /\ state = [isPlaying |-> TRUE, isLoading |-> FALSE, remainingSeconds |-> dur,
                    error |-> ""]
        /\ currentVolume = vol
        /\ B_targetVolume = vol
        /\ currentSource = src
        /\ B_loaded = {1}
        /\ srcOf = [i \in 1..B_MaxSounds |-> IF i = 1 THEN src ELSE 0]
        /\ B_cdLive = 1

B_Started == B_StartedWith(B_Durations)

B_NoFade == [live |-> FALSE, step |-> 0, from |-> 0, target |-> 0, ms |-> 0]

\* the platform and the history around a controller of variant B
B_Platform ==
    /\ B_fadeTimer = 0
    /\ disposed = FALSE
    /\ finalFadeStarted = FALSE
    /\ B_fades = [i \in 1..B_MaxFades |-> B_NoFade]
    /\ B_tasks = EmptyBag
    /\ B_ncalls = 0
    /\ B_nfaults = 0
    /\ overlap = 0
    /\ lateEffect = FALSE
    /\ loadFailDirty = FALSE
    /\ sessionFades = 0
    /\ countdownFades = 0

\* no timer callback or call is pending around a controller of variant A, and
\* the history is empty
A_Quiet ==
    /\ fadeTimer = 0
    /\ loopSeekInProgress = FALSE
    /\ fades = [i \in 1..MaxFades |-> NoFade]
    /\ tasks = EmptyBag
    /\ ncalls = 0
    /\ nfaults = 0
    /\ autoStopped = {}
    /\ secondStop = FALSE
    /\ lateStop = FALSE
    /\ stopDirty = FALSE
    /\ stopMidLoad = FALSE

\* the platform and the history around a controller of variant A
A_Platform ==
    /\ isPaused = FALSE
    /\ A_Quiet

\* ------------------------------------- the library functions: initial states
\* Each of the functions below has a specification of its own; in the
\* specifications of the controllers they stay as the module load leaves them.

\* no gain commanded yet
NoGain == -1

\* a fade interval that has not ticked, sleep-aid-audio-controller.ts lines 217-221
FadeRun(from, to, steps) ==
    [from |-> from, to |-> to, steps |-> steps, step |-> 0, gain |-> NoGain]

\* store.get(key) of a key that is not in the map
NoEntry == [count |-> 0, resetAt |-> 0]

RL_MaxKeys == 2     \* client keys that make requests
RL_Keys == 1..RL_MaxKeys

\* no request answered yet
NoAnswer == [key |-> 0, status |-> ""]

\* rateLimit(options) at module load, part_006 lines 7 and 43: an empty store.  first,
\* seen and wins are history: per key the time of the first request of its window,
\* the number of requests made in that window and the number of windows it has
\* started; last is the last answer.
Limiter(max, windowMs) ==
    [max |-> max, windowMs |-> windowMs, now |-> 0,
     store |-> [k \in RL_Keys |-> NoEntry],
     first |-> [k \in RL_Keys |-> -1],
     seen |-> [k \in RL_Keys |-> 0],
     wins |-> [k \in RL_Keys |-> 0],
     last |-> NoAnswer]

\* the reminder module at load, part_000 line 302: nothing stored under
\* REMINDER_ID_KEY (0) and nothing scheduled
Reminders ==
    [stored |-> 0, scheduled |-> {}, nextId |-> 1, tasks |-> EmptyBag, ncalls |-> 0,
     lastDone |-> ""]

AS_MaxFields == 2   \* fields of SleepAidState the patches set
AS_Fields == 1..AS_MaxFields

\* DEFAULT_SLEEP_AID_STATE, sleep-aid-storage.ts lines 33-46 (each field's default is 0)
DEFAULT_SLEEP_AID_STATE == [f \in AS_Fields |-> 0]

\* AsyncStorage before any patch: getSleepAidState() returns the defaults (line 50)
AidStore ==
    [stored |-> DEFAULT_SLEEP_AID_STATE, tasks |-> EmptyBag, done |-> {}, ncalls |-> 0]

\* lastLogDate: "", part_001 line 73
EmptyDate == 0

\* DEFAULT_GAMIFICATION, part_001 lines 66-74 (xp, level and badges are not
\* touched by updateStreak); ncalls counts the calls made
DEFAULT_GAMIFICATION ==
    [currentStreak |-> 0, longestStreak |-> 0, totalNightsLogged |-> 0,
     lastLogDate |-> EmptyDate, ncalls |-> 0]

L_Loaded ==
    /\ fadeRun = FadeRun(0, 0, 1)
    /\ limiter = Limiter(1, 1)
    /\ reminders = Reminders
    /\ aidStore = AidStore
    /\ gamification = DEFAULT_GAMIFICATION

InitA ==
    /\ A_Constructed \/ A_Started
    /\ A_Platform
    /\ B_Constructed
    /\ B_Platform
    /\ L_Loaded

\* ------------------------------------------------------------ A: helpers

A_clearCountdown(w) ==
    IF w.countdownTimer
    THEN [w EXCEPT !.countdownTimer = FALSE, !.cdLive = @ - 1]
    ELSE w

\* The promise of a fade interval is resolved only by the interval's own callback
\* (line 224): once the interval is cleared, a call awaiting it stays suspended for
\* ever, which fid = 0 records.
Orphan(bag, fid) ==
    LET ws == {t \in BagToSet(bag) : t.fid = fid}
    IN IF ws = {}
       THEN bag
       ELSE LET t == CHOOSE x \in ws : TRUE
            IN (bag (-) SetToBag({t})) (+) SetToBag({[t EXCEPT !.fid = 0]})

A_clearFade(w) ==
    IF w.fadeTimer # 0
    THEN [w EXCEPT !.fades[w.fadeTimer] = NoFade, !.fadeTimer = 0,
                   !.tasks = Orphan(@, w.fadeTimer)]
    ELSE w

A_startCountdown(w) ==
    LET w1 == A_clearCountdown(w)
    IN [w1 EXCEPT !.countdownTimer = TRUE, !.cdLive = @ + 1]

\* options of the stop each caller makes
WithFade(op) == op \in {"stopManual", "timerEnd"}
ResetTimer(op) == op # "start"
FadeMs(op) == IF op = "timerEnd" THEN TIMER_END_FADE_MS ELSE MANUAL_STOP_FADE_MS
FadeSteps(durationMs) == Max(1, Round(durationMs, FADE_STEP_MS))

\* Idle: no resource, no timer, not playing, no time left
A_Idle(w) ==
    /\ w.sound = 0 /\ w.loaded = {}
    /\ ~w.countdownTimer /\ w.cdLive = 0
    /\ w.fadeTimer = 0 /\ \A i \in 1..MaxFades : ~w.fades[i].live
    /\ ~w.isPlaying /\ ~w.isPaused /\ w.remainingSeconds = 0

\* A public call's promise settles (ok: it resolves): what a stopManual leaves
\* behind is recorded.
A_return(w, t, ok) ==
    IF t.op = "stopManual"
    THEN [w EXCEPT !.stopDirty = @ \/ ~A_Idle(w)]
    ELSE w

\* stop, lines 265-275, and the return to the caller: start continues after its
\* first stop (line 44), every other caller is finished.
A_stop_tail(w, t) ==
    LET w1 == A_clearFade(w)
        w2 == [w1 EXCEPT !.loopSeekInProgress = FALSE, !.isPlaying = FALSE,
                         !.isPaused = FALSE,
                         !.remainingSeconds = IF ResetTimer(t.op) THEN 0 ELSE @]
    IN IF t.op = "start"
       THEN AddTask(w2, [t EXCEPT !.pc = "start.afterStop", !.snd = 0, !.fid = 0])
       ELSE A_return(w2, t, TRUE)

\* stop, lines 257-263: the teardown of the loaded sound
A_stop_teardown(w, t) ==
    IF w.sound # 0
    THEN AddTask(w, [t EXCEPT !.pc = "stop.setPositionAsync", !.snd = w.sound, !.fid = 0])
    ELSE A_stop_tail(w, t)

\* stop, lines 251-255, with fadeTo's lines 212-216 when the stop fades
A_stop(w, t) ==
    LET w1 == A_clearCountdown(w)
    IN IF w1.sound # 0 /\ WithFade(t.op)
       THEN AddTask(A_clearFade(w1), [t EXCEPT !.pc = "stop.getStatusAsync", !.snd = w1.sound])
       ELSE A_stop_teardown(w1, t)

\* start's catch block, lines 81-84
A_start_catch(w, t) == A_stop(w, [t EXCEPT !.op = "catch"])

\* setInterval returns a handle no scheduled interval has
FreeFades(w) == {i \in 1..MaxFades : ~w.fades[i].live}
FreeFade(w) == CHOOSE i \in FreeFades(w) : \A j \in FreeFades(w) : i <= j

\* createAsync returns a sound object no reference is held to
FreeSounds(w) ==
    {i \in 1..MaxSounds : i \notin w.loaded /\ i # w.sound
                            /\ \A t \in BagToSet(w.tasks) : t.snd # i}
FreeSound(w) == CHOOSE i \in FreeSounds(w) : \A j \in FreeSounds(w) : i <= j

\* lines 216-218: the volume in the status getStatusAsync resolves with
StatusVolume(w, snd) == IF snd \in w.loaded THEN w.volumeOf[snd] ELSE 0

\* setVolumeAsync(v) on this.sound, lines 122 and 236: on a sound that is not
\* loaded it rejects and the rejection is swallowed
A_setVolumeAsync(w, v) ==
    IF w.sound \in w.loaded THEN [w EXCEPT !.volumeOf[w.sound] = v] ELSE w

\* fadeTo, lines 217-225, once getStatusAsync has resolved: the interval is
\* installed over whatever this.fadeTimer holds, and the caller awaits its promise.
A_fadeTo_install(w, t, durationMs, waitPc) ==
    LET id == FreeFade(w)
        w1 == [w EXCEPT !.fades[id] = [live |-> TRUE, step |-> 0,
                                       steps |-> FadeSteps(durationMs),
                                       from |-> StatusVolume(w, t.snd),
                                       to |-> Gain(t.vol)],
                        !.fadeTimer = id]
    IN AddTask(w1, [t EXCEPT !.pc = waitPc, !.fid = id, !.snd = 0, !.vol = 0])

\* fadeTo, lines 212-216, called by start (line 80)
A_start_fadeTo(w, t) ==
    IF w.sound = 0
    THEN A_return(w, t, TRUE)
    ELSE AddTask(A_clearFade(w), [t EXCEPT !.pc = "start.getStatusAsync", !.snd = w.sound,
                                           !.vol = w.targetVolume])

\* resolve() of the promise of fade interval fid: the call awaiting it continues
Awaiting(w, fid) == {t \in BagToSet(w.tasks) : t.fid = fid}

A_fade_resolve(w, ws) ==
    IF ws = {}
    THEN w
    ELSE LET t == CHOOSE x \in ws : TRUE
         IN IF t.pc = "start.fadeWait"
            THEN A_return(w, t, TRUE)
            ELSE A_stop_teardown(w, t)

\* lines 227-228 and 239-240: this.clearFade(); resolve()
A_fade_finish(w, fid) ==
    LET ws == Awaiting(w, fid)
        w1 == IF ws = {} THEN w ELSE DelTask(w, CHOOSE x \in ws : TRUE)
    IN A_fade_resolve(A_clearFade(w1), ws)

\* the interpolated volume passed on as it is
A_fadeGainUnclamped(from, to, step, steps) == from + ((to - from) * step) \div steps

\* lines 233-236: progress = currentStep / steps; nextVolume = startVolume +
\* (targetVolume - startVolume) * progress; the gain is Math.max(0, Math.min(1, nextVolume))
A_fadeGain(from, to, step, steps) ==
    LET nextVolume == from + ((to - from) * step) \div steps
    IN Max(0, Min(Gain(10), nextVolume))

\* the fade interval's callback, lines 225-242 (Stride callbacks in a row)
A_fadeCallback(w, fid) ==
    IF w.sound = 0
    THEN A_fade_finish(w, fid)
    ELSE LET f == w.fades[fid]
             s == Min(f.step + Stride, f.steps)
             w1 == A_setVolumeAsync([w EXCEPT !.fades[fid].step = s],
                                    A_fadeGain(f.from, f.to, s, f.steps))
         IN IF s >= f.steps
            THEN A_fade_finish(w1, fid)
            ELSE w1

\* a decrement with no floor
A_decrementUnclamped(r) == r - 1

\* line 158: Math.max(0, this.remainingSeconds - 1)
A_decrement(r) == Max(0, r - 1)

\* the countdown interval's callback, lines 155-167
A_countdownCallback(w) ==
    IF w.isPaused
    THEN w
    ELSE LET r == A_decrement(w.remainingSeconds)
             w1 == [w EXCEPT !.remainingSeconds = r]
         IN IF r <= 0
            THEN A_stop([w1 EXCEPT !.autoStopped = @ \cup (IF w.sound = 0 THEN {} ELSE {w.sound}),
                                   !.secondStop = @ \/ (w.sound # 0 /\ w.sound \in w.autoStopped),
                                   !.lateStop = @ \/ w.sound = 0],
                        Task("timerEnd", "", 0, 0, 0, 0))
            ELSE w1

\* An awaited stop rejects (a device rejection fadeTo does not catch, or the
\* TypeError of this.sound.stopAsync() on a null this.sound): it propagates out of
\* stopManual, dispose and start; the countdown's call swallows it (line 163).
A_throw(w, t) == A_return(w, t, FALSE)

\* ------------------------------------------------ A: the device's answers
\* A call on a sound that is not loaded rejects; a call on a loaded sound rejects
\* only for an external reason, at most MaxFaults times in a run.
Answers(w, snd) ==
    (IF snd = 0 \/ snd \in w.loaded THEN {"ok"} ELSE {"unloaded"})
    \cup (IF w.nfaults < MaxFaults /\ (snd = 0 \/ snd \in w.loaded) THEN {"fault"} ELSE {})

\* getStatusAsync and unloadAsync resolve on a sound that is not loaded
AnswersAlways(w) == {"ok"} \cup (IF w.nfaults < MaxFaults THEN {"fault"} ELSE {})

\* A call whose rejection the code swallows (`.catch(() => undefined)`) and whose
\* effect on the device the controller never reads continues the same way whether
\* it resolves or rejects: its continuation draws no answer.

Fault(w, a) == IF a = "fault" THEN [w EXCEPT !.nfaults = @ + 1] ELSE w

Suspended(pc) == {t \in BagToSet(tasks) : t.pc = pc}

\* ------------------------------------------------------ A: public calls

\* a start call is suspended in createAsync or playAsync
Loading(w) ==
    \E t \in BagToSet(w.tasks) : t.pc \in {"start.createAsync", "start.playAsync"}

Called(w) == [w EXCEPT !.ncalls = @ + 1, !.stopMidLoad = FALSE]

A_start ==
    \E dur \in Durations, vol \in Volumes :
        /\ ncalls < MaxCalls
        /\ CommitA(A_stop(Called(WA), Task("start", "", 0, 0, dur, vol)))

A_stopManual ==
    /\ ncalls < MaxCalls
    /\ CommitA(A_stop([Called(WA) EXCEPT !.stopMidLoad = Loading(WA)],
                      Task("stopManual", "", 0, 0, 0, 0)))

A_dispose ==
    /\ ncalls < MaxCalls
    /\ CommitA(A_stop([Called(WA) EXCEPT !.stopMidLoad = Loading(WA)],
                      Task("dispose", "", 0, 0, 0, 0)))

A_pause ==
    /\ ncalls < MaxCalls
    /\ LET w == Called(WA)
       IN CommitA(IF w.sound = 0 \/ ~w.isPlaying \/ w.isPaused
                  THEN w
                  ELSE AddTask(w, Task("pause", "pause.pauseAsync", w.sound, 0, 0, 0)))

A_resume ==
    /\ ncalls < MaxCalls
    /\ LET w == Called(WA)
       IN CommitA(IF w.sound = 0 \/ ~w.isPlaying \/ ~w.isPaused
                  THEN w
                  ELSE AddTask(w, Task("resume", "resume.playAsync", w.sound, 0, 0, 0)))

\* a setDurationSeconds that restarts the countdown in every phase
A_setDurationSecondsAlways ==
    \E d \in Durations :
        /\ ncalls < MaxCalls
        /\ CommitA(A_startCountdown([Called(WA) EXCEPT !.remainingSeconds = d]))

\* setDurationSeconds, lines 109-117
A_setDurationSeconds ==
    \E d \in Durations :
        /\ ncalls < MaxCalls
        /\ LET w == [Called(WA) EXCEPT !.remainingSeconds = d]
           IN CommitA(IF w.isPlaying /\ ~w.isPaused THEN A_startCountdown(w) ELSE w)

A_setTargetVolume ==
    \E v \in Volumes :
        /\ ncalls < MaxCalls
        /\ LET w == [Called(WA) EXCEPT !.targetVolume = v]
           IN CommitA(IF w.sound # 0 /\ w.isPlaying /\ ~w.isPaused
                      THEN A_setVolumeAsync(w, Gain(v))
                      ELSE w)

\* ------------------------------------------ A: continuations after an await

\* start, lines 46-55, after `await this.stop(...)`
A_start_afterStop ==
    \E t \in Suspended("start.afterStop") :
        LET w == [DelTask(WA, t) EXCEPT !.remainingSeconds = t.dur, !.targetVolume = t.vol]
        IN CommitA(AddTask(w, [t EXCEPT !.pc = "start.setAudioModeAsync", !.dur = 0, !.vol = 0]))

\* start, line 57, after setAudioModeAsync
A_start_setAudioModeAsync ==
    \E t \in Suspended("start.setAudioModeAsync") : \E a \in AnswersAlways(WA) :
        LET w == Fault(DelTask(WA, t), a)
        IN CommitA(IF a = "ok"
                   THEN AddTask(w, [t EXCEPT !.pc = "start.createAsync"])
                   ELSE A_start_catch(w, t))

\* start, lines 65-68, after createAsync
A_start_createAsync ==
    \E t \in Suspended("start.createAsync") : \E a \in AnswersAlways(WA) :
        LET w == Fault(DelTask(WA, t), a)
            id == FreeSound(w)
        IN /\ a = "ok" => FreeSounds(w) # {}
           /\ CommitA(IF a = "ok"
                      THEN AddTask([w EXCEPT !.loaded = @ \cup {id}, !.sound = id,
                                             !.autoStopped = @ \ {id}],
                                   [t EXCEPT !.pc = "start.playAsync", !.snd = id])
                      ELSE A_start_catch(w, t))

\* start, lines 70-80, after playAsync
A_start_playAsync ==
    \E t \in Suspended("start.playAsync") : \E a \in Answers(WA, t.snd) :
        LET w == Fault(DelTask(WA, t), a)
        IN CommitA(IF a = "ok"
                   THEN A_start_fadeTo(
                            A_startCountdown([w EXCEPT !.isPlaying = TRUE, !.isPaused = FALSE]), t)
                   ELSE A_start_catch(w, t))

\* fadeTo called by start, after getStatusAsync
A_start_getStatusAsync ==
    \E t \in Suspended("start.getStatusAsync") : \E a \in AnswersAlways(WA) :
        LET w == Fault(DelTask(WA, t), a)
        IN /\ a = "ok" => FreeFades(w) # {}
           /\ CommitA(IF a = "ok"
                      THEN A_fadeTo_install(w, t, START_FADE_MS, "start.fadeWait")
                      ELSE A_start_catch(w, t))

\* fadeTo called by stop (line 254), after getStatusAsync
A_stop_getStatusAsync ==
    \E t \in Suspended("stop.getStatusAsync") : \E a \in AnswersAlways(WA) :
        LET w == Fault(DelTask(WA, t), a)
        IN /\ a = "ok" => FreeFades(w) # {}
           /\ CommitA(IF a = "ok"
                      THEN A_fadeTo_install(w, t, FadeMs(t.op), "stop.fadeWait")
                      ELSE A_throw(w, t))

\* stop, line 260, after setPositionAsync (its rejection is swallowed)
A_stop_setPositionAsync ==
    \E t \in Suspended("stop.setPositionAsync") :
        LET w == DelTask(WA, t)
        IN CommitA(IF w.sound = 0
                   THEN A_throw(w, t)
                   ELSE AddTask(w, [t EXCEPT !.pc = "stop.stopAsync", !.snd = w.sound]))

\* stop, line 261, after stopAsync
A_stop_stopAsync ==
    \E t \in Suspended("stop.stopAsync") :
        LET w == DelTask(WA, t)
        IN CommitA(IF w.sound = 0
                   THEN A_throw(w, t)
                   ELSE AddTask(w, [t EXCEPT !.pc = "stop.unloadAsync", !.snd = w.sound]))

\* stop, lines 262-275, after unloadAsync
A_stop_unloadAsync ==
    \E t \in Suspended("stop.unloadAsync") : \E a \in AnswersAlways(WA) :
        LET w == Fault(DelTask(WA, t), a)
            w1 == [w EXCEPT !.loaded = IF a = "ok" THEN @ \ {t.snd} ELSE @, !.sound = 0,
                            !.volumeOf[t.snd] = IF a = "ok" THEN 0 ELSE @]
        IN CommitA(A_stop_tail(w1, t))

\* pause, lines 95-97, after pauseAsync
A_pause_pauseAsync ==
    \E t \in Suspended("pause.pauseAsync") :
        LET w == DelTask(WA, t)
        IN CommitA([A_clearCountdown(w) EXCEPT !.isPaused = TRUE])

\* resume, lines 104-106, after playAsync
A_resume_playAsync ==
    \E t \in Suspended("resume.playAsync") :
        LET w == DelTask(WA, t)
        IN CommitA(A_startCountdown([w EXCEPT !.isPaused = FALSE]))

\* --------------------------------------------------------- A: timers

A_fadeTick ==
    \E fid \in 1..MaxFades :
        /\ fades[fid].live
        /\ CommitA(A_fadeCallback(WA, fid))

A_countdownTick ==
    /\ cdLive > 0
    /\ CommitA(A_countdownCallback(WA))

NextA ==
    \/ A_start
    \/ A_stopManual
    \/ A_dispose
    \/ A_pause
    \/ A_resume
    \/ A_setDurationSeconds
    \/ A_setTargetVolume
    \/ A_start_afterStop
    \/ A_start_setAudioModeAsync
    \/ A_start_createAsync
    \/ A_start_playAsync
    \/ A_start_getStatusAsync
    \/ A_stop_getStatusAsync
    \/ A_stop_setPositionAsync
    \/ A_stop_stopAsync
    \/ A_stop_unloadAsync
    \/ A_pause_pauseAsync
    \/ A_resume_playAsync
    \/ A_fadeTick
    \/ A_countdownTick

SpecA == InitA /\ [][NextA]_vars

\* the calls made on a paused controller
InitA_Paused ==
    /\ A_Paused
    /\ A_Quiet
    /\ B_Constructed
    /\ B_Platform
    /\ L_Loaded

SpecA_Paused == InitA_Paused /\ [][NextA]_vars

\* ------------------------------------------------- A: the loop restart
\* handleStatusUpdate, lines 170-209, and the promise chain it starts

RECURSIVE CopiesOf(_, _)
CopiesOf(S, B) ==
    IF S = {} THEN 0
    ELSE LET x == CHOOSE y \in S : TRUE
         IN CopiesIn(x, B) + CopiesOf(S \ {x}, B)

\* the restart chains whose setPositionAsync(0) or playAsync has not settled
SeeksInFlight(w) ==
    CopiesOf({t \in BagToSet(w.tasks) : t.pc \in {"seek.setPositionAsync", "seek.playAsync"}},
             w.tasks)

\* The sound delivers status updates to handleStatusUpdate from line 66 until the
\* teardown of stop removes the callback (line 258); an unloaded sound delivers
\* none that pass line 171.
A_StatusDelivered(w) ==
    /\ w.sound # 0 /\ w.sound \in w.loaded
    /\ \A t \in BagToSet(w.tasks) :
           t.pc \in {"stop.setPositionAsync", "stop.stopAsync", "stop.unloadAsync"}
               => t.snd # w.sound

\* a chain whose `finally` does nothing
A_seek_finallyStuck(w, t) == w

\* the `finally` of the chain: lines 183-185 release the latch at once, lines
\* 203-207 schedule its release 40 ms later
A_seek_finally(w, t) ==
    IF t.op = "didJustFinish"
    THEN [w EXCEPT !.loopSeekInProgress = FALSE]
    ELSE AddTask(w, [t EXCEPT !.pc = "seek.release", !.snd = 0])

\* lines 171-181 and 189-199: a status update with didJustFinish, or with at most
\* LOOP_RESTART_THRESHOLD_MS left, that passes the guard of line 172
A_handleStatusUpdate ==
    \E kind \in {"didJustFinish", "nearEnd"} :
        /\ A_StatusDelivered(WA)
        /\ isPlaying /\ ~isPaused /\ ~loopSeekInProgress
        /\ SeeksInFlight(WA) < MaxSeeks
        /\ CommitA(AddTask([WA EXCEPT !.loopSeekInProgress = TRUE],
                           Task(kind, "seek.setPositionAsync", sound, 0, 0, 0)))

\* lines 178 and 196: `.then(() => this.sound?.playAsync())`, on the sound the
\* controller holds when setPositionAsync resolves; a rejection goes to the catch
\* (onError) and the finally
A_seek_setPositionAsync ==
    \E t \in Suspended("seek.setPositionAsync") : \E a \in Answers(WA, t.snd) :
        LET w == Fault(DelTask(WA, t), a)
        IN CommitA(IF a = "ok" /\ w.sound # 0
                   THEN AddTask(w, [t EXCEPT !.pc = "seek.playAsync", !.snd = w.sound])
                   ELSE A_seek_finally(w, t))

A_seek_playAsync ==
    \E t \in Suspended("seek.playAsync") : \E a \in Answers(WA, t.snd) :
        CommitA(A_seek_finally(Fault(DelTask(WA, t), a), t))

\* lines 204-206: the 40 ms timeout fires
A_seek_release ==
    \E t \in Suspended("seek.release") :
        CommitA([DelTask(WA, t) EXCEPT !.loopSeekInProgress = FALSE])

\* Status updates interleaved with start, stopManual, their continuations, the
\* fades and the release of the latch, on a playing controller, within the first
\* period of the countdown (its callback is not taken).
InitA_Loop ==
    /\ A_Started
    /\ A_Platform
    /\ B_Constructed
    /\ B_Platform
    /\ L_Loaded

NextA_Loop ==
    \/ A_start
    \/ A_stopManual
    \/ A_start_afterStop
    \/ A_start_setAudioModeAsync
    \/ A_start_createAsync
    \/ A_start_playAsync
    \/ A_start_getStatusAsync
    \/ A_stop_getStatusAsync
    \/ A_stop_setPositionAsync
    \/ A_stop_stopAsync
    \/ A_stop_unloadAsync
    \/ A_fadeTick
    \/ A_handleStatusUpdate
    \/ A_seek_setPositionAsync
    \/ A_seek_playAsync
    \/ A_seek_release

SpecA_Loop == InitA_Loop /\ [][NextA_Loop]_vars

\* status updates interleaved with pause, resume, the countdown and the
\* timer-end stop it triggers, on a playing controller
NextA_LoopPause ==
    \/ A_pause
    \/ A_resume
    \/ A_pause_pauseAsync
    \/ A_resume_playAsync
    \/ A_countdownTick
    \/ A_stop_getStatusAsync
    \/ A_stop_setPositionAsync
    \/ A_stop_stopAsync
    \/ A_stop_unloadAsync
    \/ A_fadeTick
    \/ A_handleStatusUpdate
    \/ A_seek_setPositionAsync
    \/ A_seek_playAsync
    \/ A_seek_release

SpecA_LoopPause == InitA_Loop /\ [][NextA_LoopPause]_vars

\* =========================================================== Variant B
\* src/unnamed/part_003

WB == [activeSound |-> activeSound, fadeTimer |-> B_fadeTimer,
       countdownTimer |-> B_countdownTimer, state |-> state, disposed |-> disposed,
       finalFadeStarted |-> finalFadeStarted, currentVolume |-> currentVolume,
       targetVolume |-> B_targetVolume, currentSource |-> currentSource,
       loaded |-> B_loaded, srcOf |-> srcOf, cdLive |-> B_cdLive, fades |-> B_fades,
       tasks |-> B_tasks, ncalls |-> B_ncalls, nfaults |-> B_nfaults, overlap |-> overlap,
       lateEffect |-> lateEffect, loadFailDirty |-> loadFailDirty,
       sessionFades |-> sessionFades, countdownFades |-> countdownFades]

CommitB(w) ==
    /\ activeSound' = w.activeSound
    /\ B_fadeTimer' = w.fadeTimer
    /\ B_countdownTimer' = w.countdownTimer
    /\ state' = w.state
    /\ disposed' = w.disposed
    /\ finalFadeStarted' = w.finalFadeStarted
    /\ currentVolume' = w.currentVolume
    /\ B_targetVolume' = w.targetVolume
    /\ currentSource' = w.currentSource
    /\ B_loaded' = w.loaded
    /\ srcOf' = w.srcOf
    /\ B_cdLive' = w.cdLive
    /\ B_fades' = w.fades
    /\ B_tasks' = w.tasks
    /\ B_ncalls' = w.ncalls
    /\ B_nfaults' = w.nfaults
    /\ overlap' = w.overlap
    /\ lateEffect' = w.lateEffect
    /\ loadFailDirty' = w.loadFailDirty
    /\ sessionFades' = w.sessionFades
    /\ countdownFades' = w.countdownFades
    /\ UNCHANGED <<varsA, varsL>>

\* A suspended async call of variant B; src, dur and vol are the StartOptions of a
\* start (dur also the argument of a resetTimer).
TaskB(op, pc, snd, fid, src, dur, vol) ==
    [op |-> op, pc |-> pc, snd |-> snd, fid |-> fid, src |-> src, dur |-> dur, vol |-> vol]

\* emit, lines 39-42
B_emit(w, patch) ==
    LET next == [k \in DOMAIN w.state |->
                    IF k \in DOMAIN patch THEN patch[k] ELSE w.state[k]]
    IN [w EXCEPT !.state = next,
                 !.lateEffect = @ \/ (w.disposed /\ next # w.state)]

\* clearFadeTimer, lines 44-49
B_clearFadeTimer(w) ==
    IF w.fadeTimer # 0
    THEN [w EXCEPT !.fades[w.fadeTimer] = B_NoFade, !.fadeTimer = 0,
                   !.tasks = Orphan(@, w.fadeTimer)]
    ELSE w

\* a clearCountdownTimer that drops the handle and leaves the interval scheduled
B_clearCountdownLeaky(w) == [w EXCEPT !.countdownTimer = FALSE]

\* clearCountdownTimer, lines 51-56
B_clearCountdownTimer(w) ==
    IF w.countdownTimer
    THEN [w EXCEPT !.countdownTimer = FALSE, !.cdLive = @ - 1]
    ELSE w

\* startCountdown, lines 116-123 (the interval's callback is B_countdownCallback)
B_startCountdown(w, durationSeconds) ==
    LET w1 == B_clearCountdownTimer(w)
        w2 == [w1 EXCEPT !.finalFadeStarted = FALSE, !.countdownFades = 0]
        w3 == B_emit(w2, [remainingSeconds |-> durationSeconds])
    IN [w3 EXCEPT !.countdownTimer = TRUE, !.cdLive = @ + 1,
                  !.lateEffect = @ \/ w.disposed]

B_FreeFades(w) == {i \in 1..B_MaxFades : ~w.fades[i].live}
B_FreeFade(w) == CHOOSE i \in B_FreeFades(w) : \A j \in B_FreeFades(w) : i <= j

B_FreeSounds(w) ==
    {i \in 1..B_MaxSounds : i \notin w.loaded /\ i # w.activeSound
                              /\ \A t \in BagToSet(w.tasks) : t.snd # i}
B_FreeSound(w) == CHOOSE i \in B_FreeSounds(w) : \A j \in B_FreeSounds(w) : i <= j

\* fadeMasterTo, lines 94-102, on a non-null activeSound: the running fade is
\* cleared and the new interval installed in the same synchronous step
B_fadeInstall(w, target, durationMs) ==
    LET w1 == B_clearFadeTimer(w)
        id == B_FreeFade(w1)
    IN [w1 EXCEPT !.fades[id] = [live |-> TRUE, step |-> 0, from |-> w.currentVolume,
                                 target |-> target, ms |-> durationMs],
                  !.fadeTimer = id,
                  !.lateEffect = @ \/ w.disposed]

\* a call rejects with the TypeError of `this.activeSound.x()` on a null activeSound
B_throw(w, t) == w

\* the code after `await this.fadeMasterTo(...)`, by the method awaiting
B_afterFade(w, t) ==
    CASE t.pc = "start.fadeWait" ->       \* lines 176-177
           B_startCountdown(B_emit(w, [isPlaying |-> TRUE, isLoading |-> FALSE]), t.dur)
      [] t.pc = "reset.fadeWait" ->       \* line 194
           B_startCountdown(w, t.dur)
      [] t.pc = "pause.fadeWait" ->       \* line 213
           IF w.activeSound = 0
           THEN B_throw(w, t)
           ELSE AddTask(w, [t EXCEPT !.pc = "pause.pauseAsync", !.snd = w.activeSound, !.fid = 0])
      [] t.pc = "resume.fadeWait" ->      \* lines 222-226
           LET w1 == B_emit(w, [isPlaying |-> TRUE])
           IN IF w1.state.remainingSeconds > 0
              THEN B_startCountdown(w1, w1.state.remainingSeconds)
              ELSE w1
      [] t.pc = "stop.fadeWait" ->        \* line 242
           IF w.activeSound = 0
           THEN B_throw(w, t)
           ELSE AddTask(w, [t EXCEPT !.pc = "stop.stopAsync", !.snd = w.activeSound, !.fid = 0])

\* `await this.fadeMasterTo(target, ms)`, lines 86-102: with no activeSound the
\* promise is resolved at once, else the caller awaits the new interval's promise
B_fadeMasterTo(w, t, target, durationMs, waitPc) ==
    IF w.activeSound = 0
    THEN B_afterFade([w EXCEPT !.currentVolume = target], [t EXCEPT !.pc = waitPc])
    ELSE LET w1 == B_fadeInstall(w, target, durationMs)
         IN AddTask(w1, [t EXCEPT !.pc = waitPc, !.fid = w1.fadeTimer, !.snd = 0])

\* the fade interval's callback, lines 102-112 (B_Stride callbacks in a row)
B_fadeCallback(w, fid) ==
    LET f == w.fades[fid]
        step == Min(f.step + B_Stride, B_FADE_STEPS)
        next == f.from + ((f.target - f.from) * step) \div B_FADE_STEPS
        w1 == [w EXCEPT !.fades[fid].step = step, !.currentVolume = next]
    IN IF step >= B_FADE_STEPS
       THEN LET ws == Awaiting(w1, fid)
                w2 == IF ws = {} THEN w1 ELSE DelTask(w1, CHOOSE x \in ws : TRUE)
                w3 == B_clearFadeTimer(w2)
            IN IF ws = {} THEN w3 ELSE B_afterFade(w3, CHOOSE x \in ws : TRUE)
       ELSE w1

\* stop, lines 242-248, from `await this.activeSound.stopAsync()`
B_stop_teardown(w, t) ==
    IF w.activeSound = 0
    THEN B_throw(w, t)
    ELSE AddTask(w, [t EXCEPT !.pc = "stop.stopAsync", !.snd = w.activeSound, !.fid = 0])

\* stop, lines 229-240
B_stop(w, t, withFade) ==
    LET w1 == B_clearCountdownTimer(w)
        w2 == [w1 EXCEPT !.finalFadeStarted = FALSE, !.countdownFades = 0, !.sessionFades = 0]
    IN IF w2.activeSound = 0
       THEN B_emit(w2, [isPlaying |-> FALSE, remainingSeconds |-> 0, isLoading |-> FALSE])
       ELSE IF withFade
            THEN B_fadeMasterTo(w2, t, 0, B_STOP_FADE_MS, "stop.fadeWait")
            ELSE B_stop_teardown(w2, t)

\* the period of the fade interval, line 97
B_stepMs(durationMs) == Max(B_MIN_STEP_MS, durationMs \div B_FADE_STEPS)

B_finalFadeFixed(next) == TIMER_FINAL_FADE_SECONDS * B_MS_PER_SECOND

\* the duration of the final fade, line 135
B_finalFadeMs(next) == next * B_MS_PER_SECOND

B_tickIgnoringFlag(w, next) == next <= TIMER_FINAL_FADE_SECONDS

\* the condition of line 133
B_finalFadeDue(w, next) == next <= TIMER_FINAL_FADE_SECONDS /\ ~w.finalFadeStarted

\* the countdown interval's callback, lines 123-139
B_countdownCallback(w) ==
    LET next == w.state.remainingSeconds - 1
    IN IF next <= 0
       THEN B_stop(B_emit(w, [remainingSeconds |-> 0]),
                   TaskB("timerEnd", "", 0, 0, 0, 0, 0), FALSE)
       ELSE LET w1 == IF B_finalFadeDue(w, next)
                      THEN LET w2 == [w EXCEPT !.finalFadeStarted = TRUE,
                                               !.sessionFades = Min(@ + 1, 2),
                                               !.countdownFades = Min(@ + 1, 2)]
                           IN IF w2.activeSound = 0
                              THEN [w2 EXCEPT !.currentVolume = 0]
                              ELSE B_fadeInstall(w2, 0, B_finalFadeMs(next))
                      ELSE w
            IN B_emit(w1, [remainingSeconds |-> next])

\* start's catch block, lines 178-184; cause is the await that rejected
B_start_catch(w, t, cause) ==
    LET w1 == B_emit(w, [isLoading |-> FALSE, isPlaying |-> FALSE, error |-> "load"])
    IN [w1 EXCEPT !.loadFailDirty =
            @ \/ (cause \in {"createAsync", "playAsync"}
                  /\ ~(w1.activeSound = 0 /\ ~w1.countdownTimer /\ w1.cdLive = 0))]

\* start, lines 171-173
B_start_play(w, t) ==
    LET w1 == [w EXCEPT !.currentSource = t.src, !.currentVolume = 0]
    IN IF w1.activeSound = 0
       THEN B_start_catch(w1, t, "TypeError")
       ELSE AddTask(w1, [t EXCEPT !.pc = "start.playAsync", !.snd = w1.activeSound])

B_Answers(w, snd) ==
    (IF snd = 0 \/ snd \in w.loaded THEN {"ok"} ELSE {"unloaded"})
    \cup (IF w.nfaults < B_MaxFaults /\ (snd = 0 \/ snd \in w.loaded) THEN {"fault"} ELSE {})

B_AnswersAlways(w) == {"ok"} \cup (IF w.nfaults < B_MaxFaults THEN {"fault"} ELSE {})

B_Suspended(pc) == {t \in BagToSet(B_tasks) : t.pc = pc}

B_Called(w) == [w EXCEPT !.ncalls = @ + 1, !.overlap = 0]

\* ------------------------------------------------------ B: public calls

\* start, lines 150-156
B_start ==
    \E src \in B_Sources, dur \in B_Durations, vol \in B_Volumes :
        /\ B_ncalls < B_MaxCalls
        /\ LET w == B_Called(WB)
               first == {t \in BagToSet(B_tasks) : t.pc = "start.ensureAudioMode" /\ t.src # src}
               w1 == [w EXCEPT !.overlap = IF B_ncalls = 1 /\ first # {} /\ activeSound = 0
                                           THEN src ELSE 0,
                               !.sessionFades = 0]
           IN CommitB(IF w.disposed
                      THEN w
                      ELSE AddTask(B_emit(w1, [isLoading |-> TRUE, error |-> ""]),
                                   TaskB("start", "start.ensureAudioMode", 0, 0, src, dur, vol)))

\* resetTimer, lines 187-195
B_resetTimer ==
    \E d \in B_Durations :
        /\ B_ncalls < B_MaxCalls
        /\ LET w == B_Called(WB)
               t == TaskB("resetTimer", "", 0, 0, 0, d, 0)
           IN CommitB(IF ~w.state.isPlaying /\ w.activeSound = 0
                      THEN w
                      ELSE IF w.finalFadeStarted /\ w.targetVolume > 0
                           THEN B_fadeMasterTo(w, t, w.targetVolume, B_RESET_FADE_MS,
                                               "reset.fadeWait")
                           ELSE B_startCountdown(w, d))

\* setVolume, lines 197-206 (the rejection of setVolumeAsync is swallowed)
B_setVolume ==
    \E v \in B_Volumes :
        /\ B_ncalls < B_MaxCalls
        /\ LET w == B_Called(WB)
           IN CommitB([w EXCEPT !.targetVolume = v, !.currentVolume = v,
                                !.lateEffect = @ \/ (w.disposed /\ w.activeSound # 0)])

\* pause, lines 208-212
B_pause ==
    /\ B_ncalls < B_MaxCalls
    /\ LET w == B_Called(WB)
       IN CommitB(IF w.activeSound = 0 \/ ~w.state.isPlaying
                  THEN w
                  ELSE B_fadeMasterTo(B_clearCountdownTimer(w),
                                      TaskB("pause", "", 0, 0, 0, 0, 0), 0, B_PAUSE_FADE_MS,
                                      "pause.fadeWait"))

\* resume, lines 217-220
B_resume ==
    /\ B_ncalls < B_MaxCalls
    /\ LET w == B_Called(WB)
       IN CommitB(IF w.activeSound = 0 \/ w.state.isPlaying
                  THEN w
                  ELSE AddTask(w, TaskB("resume", "resume.playAsync", w.activeSound, 0, 0, 0, 0)))

\* stop, called by the owner
B_stopCall ==
    \E withFade \in BOOLEAN :
        /\ B_ncalls < B_MaxCalls
        /\ CommitB(B_stop(B_Called(WB), TaskB("stop", "", 0, 0, 0, 0, 0), withFade))

\* dispose, lines 251-257
B_dispose ==
    /\ B_ncalls < B_MaxCalls
    /\ LET w == B_Called(WB)
           w1 == B_clearCountdownTimer(B_clearFadeTimer([w EXCEPT !.disposed = TRUE]))
       IN CommitB(IF w1.activeSound = 0
                  THEN w1
                  ELSE AddTask(w1, TaskB("dispose", "dispose.unloadAsync", w1.activeSound,
                                         0, 0, 0, 0)))

\* ------------------------------------------ B: continuations after an await

\* a start that takes every source for a new one
B_sourceAlwaysChanged(w, src) == TRUE

\* line 157: this.currentSource !== source
B_sourceChanged(w, src) == w.currentSource # src

\* start, lines 157-169, after ensureAudioMode
B_start_ensureAudioMode ==
    \E t \in B_Suspended("start.ensureAudioMode") : \E a \in B_AnswersAlways(WB) :
        LET w == DelTask(WB, t)
            w1 == [w EXCEPT !.targetVolume = t.vol]
            sourceChanged == B_sourceChanged(w, t.src)
        IN CommitB(
            IF a # "ok"
            THEN B_start_catch([w EXCEPT !.nfaults = @ + 1], t, "ensureAudioMode")
            ELSE IF w1.activeSound = 0
                 THEN AddTask(w1, [t EXCEPT !.pc = "start.createAsync"])
                 ELSE IF sourceChanged
                      THEN AddTask(w1, [t EXCEPT !.pc = "start.stopOld", !.snd = w1.activeSound])
                      ELSE AddTask(w1, [t EXCEPT !.pc = "start.stopSame", !.snd = w1.activeSound]))

\* start, line 164, after stopAsync of the previous source's sound
B_start_stopOld ==
    \E t \in B_Suspended("start.stopOld") :
        LET w == DelTask(WB, t)
        IN CommitB(IF w.activeSound = 0
                   THEN B_start_catch(w, t, "TypeError")
                   ELSE AddTask(w, [t EXCEPT !.pc = "start.unloadOld", !.snd = w.activeSound]))

\* start, line 165, after unloadAsync of the previous source's sound
B_start_unloadOld ==
    \E t \in B_Suspended("start.unloadOld") : \E a \in B_AnswersAlways(WB) :
        LET w == DelTask(WB, t)
            w1 == IF a = "ok"
                  THEN [w EXCEPT !.loaded = @ \ {t.snd}]
                  ELSE [w EXCEPT !.nfaults = @ + 1]
        IN CommitB(AddTask(w1, [t EXCEPT !.pc = "start.createAsync", !.snd = 0]))

\* start, lines 161/165 and 171-173, after buildSound
B_start_createAsync ==
    \E t \in B_Suspended("start.createAsync") : \E a \in B_AnswersAlways(WB) :
        LET w == DelTask(WB, t)
            id == B_FreeSound(w)
        IN /\ a = "ok" => B_FreeSounds(w) # {}
           /\ CommitB(
                IF a = "ok"
                THEN B_start_play([w EXCEPT !.loaded = @ \cup {id}, !.srcOf[id] = t.src,
                                            !.activeSound = id,
                                            !.lateEffect = @ \/ w.disposed], t)
                ELSE B_start_catch([w EXCEPT !.nfaults = @ + 1], t, "createAsync"))

\* start, line 168, after stopAsync of the reused sound
B_start_stopSame ==
    \E t \in B_Suspended("start.stopSame") :
        LET w == DelTask(WB, t)
        IN CommitB(IF w.activeSound = 0
                   THEN B_start_catch(w, t, "TypeError")
                   ELSE AddTask(w, [t EXCEPT !.pc = "start.setPositionAsync",
                                             !.snd = w.activeSound]))

\* start, lines 171-173, after setPositionAsync of the reused sound
B_start_setPositionAsync ==
    \E t \in B_Suspended("start.setPositionAsync") :
        CommitB(B_start_play(DelTask(WB, t), t))

\* start, line 174, after playAsync
B_start_playAsync ==
    \E t \in B_Suspended("start.playAsync") : \E a \in B_Answers(WB, t.snd) :
        LET w == DelTask(WB, t)
        IN CommitB(IF a = "ok"
                   THEN B_fadeMasterTo(w, t, w.targetVolume, B_START_FADE_MS, "start.fadeWait")
                   ELSE B_start_catch(IF a = "fault" THEN [w EXCEPT !.nfaults = @ + 1] ELSE w,
                                      t, "playAsync"))

\* pause, line 214, after pauseAsync
B_pause_pauseAsync ==
    \E t \in B_Suspended("pause.pauseAsync") :
        CommitB(B_emit(DelTask(WB, t), [isPlaying |-> FALSE]))

\* resume, line 221, after playAsync
B_resume_playAsync ==
    \E t \in B_Suspended("resume.playAsync") :
        LET w == DelTask(WB, t)
        IN CommitB(B_fadeMasterTo(w, t, w.targetVolume, B_RESUME_FADE_MS,
                                  "resume.fadeWait"))

\* stop, line 243, after stopAsync
B_stop_stopAsync ==
    \E t \in B_Suspended("stop.stopAsync") :
        LET w == DelTask(WB, t)
        IN CommitB(IF w.activeSound = 0
                   THEN B_throw(w, t)
                   ELSE AddTask(w, [t EXCEPT !.pc = "stop.unloadAsync", !.snd = w.activeSound]))

\* stop, lines 244-248, after unloadAsync
B_stop_unloadAsync ==
    \E t \in B_Suspended("stop.unloadAsync") : \E a \in B_AnswersAlways(WB) :
        LET w == DelTask(WB, t)
            w1 == IF a = "ok"
                  THEN [w EXCEPT !.loaded = @ \ {t.snd}]
                  ELSE [w EXCEPT !.nfaults = @ + 1]
            w2 == B_clearFadeTimer([w1 EXCEPT !.activeSound = 0, !.currentSource = 0])
        IN CommitB(B_emit([w2 EXCEPT !.currentVolume = 0],
                          [isPlaying |-> FALSE, remainingSeconds |-> 0, isLoading |-> FALSE]))

\* dispose, line 258, after unloadAsync
B_dispose_unloadAsync ==
    \E t \in B_Suspended("dispose.unloadAsync") : \E a \in B_AnswersAlways(WB) :
        LET w == DelTask(WB, t)
            w1 == IF a = "ok"
                  THEN [w EXCEPT !.loaded = @ \ {t.snd}]
                  ELSE [w EXCEPT !.nfaults = @ + 1]
        IN CommitB([w1 EXCEPT !.activeSound = 0])

\* --------------------------------------------------------- B: timers

B_fadeTick ==
    \E fid \in 1..B_MaxFades :
        /\ B_fades[fid].live
        /\ CommitB(B_fadeCallback(WB, fid))

B_countdownTick ==
    /\ B_cdLive > 0
    /\ CommitB(B_countdownCallback(WB))

NextB ==
    \/ B_start
    \/ B_resetTimer
    \/ B_setVolume
    \/ B_pause
    \/ B_resume
    \/ B_stopCall
    \/ B_dispose
    \/ B_start_ensureAudioMode
    \/ B_start_stopOld
    \/ B_start_unloadOld
    \/ B_start_createAsync
    \/ B_start_stopSame
    \/ B_start_setPositionAsync
    \/ B_start_playAsync
    \/ B_pause_pauseAsync
    \/ B_resume_playAsync
    \/ B_stop_stopAsync
    \/ B_stop_unloadAsync
    \/ B_dispose_unloadAsync
    \/ B_fadeTick
    \/ B_countdownTick

InitB ==
    /\ B_Constructed \/ B_Started
    /\ B_Platform
    /\ A_Constructed
    /\ A_Platform
    /\ L_Loaded

SpecB == InitB /\ [][NextB]_vars

\* A session of variant B that is playing and left alone: nothing is called, the
\* timers run and the stop made by the last tick runs its continuations.
InitB_Countdown ==
    /\ B_StartedWith(1..B_MaxCountdown)
    /\ B_Platform
    /\ A_Constructed
    /\ A_Platform
    /\ L_Loaded

NextB_Countdown ==
    \/ B_countdownTick
    \/ B_fadeTick
    \/ B_stop_stopAsync
    \/ B_stop_unloadAsync

SpecB_Countdown == InitB_Countdown /\ [][NextB_Countdown]_vars

\* ------------------------------------------------------------ A: claims

\* every suspended call has run to its end, or awaits a promise nothing resolves
A_Settled == \A t \in BagToSet(tasks) : t.pc \in {"start.fadeWait", "stop.fadeWait"} /\ t.fid = 0

\* C1: in runs without an external device fault, every sound createAsync has
\* returned is the controller's this.sound or has been unloaded, so at most one
\* sound is loaded at any instant.
A_C1_OneLoadedSound == nfaults = 0 => (loaded \subseteq {sound} /\ Cardinality(loaded) <= 1)

\* C3: in runs without an external device fault, once a stopManual or dispose made
\* while a start was suspended in createAsync or playAsync was the last call and every
\* continuation has run, nothing is loaded, this.sound is null, isPlaying is false
\* and there is no countdown timer.
A_C3_StopMidLoadLeavesIdle ==
    (nfaults = 0 /\ stopMidLoad /\ A_Settled)
        => (loaded = {} /\ sound = 0 /\ ~isPlaying /\ ~countdownTimer /\ cdLive = 0)

\* C5: at most one fade interval is scheduled at any instant.
A_C5_OneFadeInterval == Cardinality({i \in 1..MaxFades : fades[i].live}) <= 1

\* C6: every stopManual call that settles leaves the sound unloaded, this.sound
\* null, both timers cancelled, isPlaying and isPaused false and remainingSeconds 0,
\* whichever device call of the stop rejects.
A_C6_StopManualLeavesIdle == ~stopDirty

\* C8: isPaused is never true while isPlaying is false or this.sound is null.
A_C8_PausedHasSession == isPaused => (isPlaying /\ sound # 0)

\* C10: no countdown tick invokes the timer-end stop a second time for the same
\* session, or after the session has been torn down.
A_C10_AutoStopOnce == ~secondStop /\ ~lateStop

\* ------------------------------------------------------------ B: claims

\* every call has run all its continuations and no fade interval is pending
B_Settled == B_tasks = EmptyBag /\ \A i \in 1..B_MaxFades : ~B_fades[i].live

\* C2 (as stated): after two starts in immediate succession with different sources,
\* once both have run all their continuations, exactly one handle is loaded, it is
\* activeSound, and currentSource is the second start's source.
B_C2_SecondStartWins ==
    (B_nfaults = 0 /\ overlap # 0 /\ B_Settled)
        => (activeSound # 0 /\ B_loaded = {activeSound} /\ currentSource = overlap)

\* C4 (as stated): once dispose() has been called nothing retains a resource,
\* schedules a timer, issues a device call or emits a state change.
B_C4_DisposedIsInert == ~lateEffect

\* C7 (as stated): when createAsync or playAsync rejects inside start, the catch
\* block leaves activeSound null and no countdown timer running.
B_C7_LoadFailureLeavesIdle == ~loadFailDirty

A_PauseWindow == isPaused \/ \E t \in BagToSet(tasks) : t.op \in {"pause", "resume"}

\* C11 (as stated): between the call of pause() and the moment the following
\* resume() has resolved, no countdown tick decrements remainingSeconds.
A_C11_PauseKeepsRemaining ==
    [][(A_PauseWindow /\ A_countdownTick) => remainingSeconds' = remainingSeconds]_vars

\* C12 (as stated): while a pause() of variant B is in progress (its fade-out or
\* its pauseAsync pending) no countdown timer is running, whatever else is called.
B_C12_PauseHaltsCountdown ==
    (\E t \in BagToSet(B_tasks) : t.op = "pause") => (~B_countdownTimer /\ B_cdLive = 0)

\* Idle, variant A: no sound, not playing, no timer, no call in progress
A_IdleNow ==
    /\ sound = 0 /\ loaded = {} /\ ~isPlaying /\ ~isPaused
    /\ ~countdownTimer /\ cdLive = 0 /\ fadeTimer = 0
    /\ \A i \in 1..MaxFades : ~fades[i].live
    /\ tasks = EmptyBag

\* C13 (as stated): stopManual or dispose called on an Idle controller leaves
\* sound, isPlaying, isPaused, both timer handles, remainingSeconds and
\* targetVolume exactly as they were and issues no device call.
A_C13_IdleStopIsNoOp ==
    [][(A_IdleNow /\ (A_stopManual \/ A_dispose))
          => /\ UNCHANGED <<sound, isPlaying, isPaused, countdownTimer, fadeTimer,
                            remainingSeconds, targetVolume>>
             /\ tasks' = EmptyBag]_vars

\* C14 (as stated): after a dispose() that was the only call made has resolved, the
\* resource is unloaded, both timers are cancelled and the state has
\* isPlaying = false, isLoading = false and remainingSeconds = 0, as after stop(false).
B_C14_DisposeIsStop ==
    (disposed /\ B_ncalls = 1 /\ B_nfaults = 0 /\ B_Settled)
        => /\ activeSound = 0 /\ B_loaded = {}
           /\ ~B_countdownTimer /\ B_cdLive = 0 /\ B_fadeTimer = 0
           /\ ~state.isPlaying /\ ~state.isLoading /\ state.remainingSeconds = 0

\* |a - b|
Dist(a, b) == IF a >= b THEN a - b ELSE b - a

\* the fade interval this.fadeTimer of variant B refers to is still scheduled after
\* the step, with the same closure, possibly some callbacks later
B_FadeContinues ==
    /\ B_fadeTimer # 0
    /\ B_fadeTimer' = B_fadeTimer
    /\ B_fades'[B_fadeTimer].live
    /\ B_fades'[B_fadeTimer].from = B_fades[B_fadeTimer].from
    /\ B_fades'[B_fadeTimer].target = B_fades[B_fadeTimer].target
    /\ B_fades'[B_fadeTimer].step >= B_fades[B_fadeTimer].step

\* C15 (as stated): while a fade of variant B is running, every gain commanded to
\* the device (by the fade's ticks or by setVolume) is at least as close to the
\* fade's target as the gain commanded before it.
B_C15_FadeMonotonic ==
    [][B_FadeContinues
          => Dist(currentVolume', B_fades[B_fadeTimer].target)
                <= Dist(currentVolume, B_fades[B_fadeTimer].target)]_vars

\* C19 (as stated): when variant B reports isPlaying, no call and no fade is in
\* progress and the final fade has not started in this session, currentVolume
\* equals targetVolume.
B_C19_VolumeIsTarget ==
    (state.isPlaying /\ B_Settled /\ B_fadeTimer = 0 /\ activeSound # 0
        /\ ~finalFadeStarted /\ sessionFades = 0)
        => currentVolume = B_targetVolume

\* a countdown tick of variant B in a session in which nothing was called since
\* it began playing; next is the value the tick computes at line 124
B_LoneTick == B_ncalls = 0 /\ B_countdownTick

\* the tick has started the final fade: a fade to 0 over next seconds
B_FinalFadeInstalled(next) ==
    /\ finalFadeStarted'
    /\ B_fadeTimer' # 0
    /\ B_fades'[B_fadeTimer'] = [live |-> TRUE, step |-> 0, from |-> currentVolume,
                                 target |-> 0, ms |-> next * B_MS_PER_SECOND]

\* C17 (as stated): the first tick that brings remainingSeconds to 8 or below starts
\* a fade to 0 lasting the remaining seconds, and at the tick that brings
\* remainingSeconds to 0 the resource is unloaded, activeSound is null and
\* isPlaying is false.
B_C17_FinalFadeThenIdleAtTick ==
    [][B_LoneTick
          => LET next == state.remainingSeconds - 1
             IN /\ (next <= TIMER_FINAL_FADE_SECONDS /\ ~finalFadeStarted)
                      => B_FinalFadeInstalled(next)
                /\ next <= 0
                      => (activeSound' = 0 /\ B_loaded' = {} /\ ~state'.isPlaying)]_vars

\* C17 (amended): the first tick that brings remainingSeconds to a value in 1..8
\* starts a fade to 0 lasting exactly that many seconds; the 22 periods of every
\* fade fit in its duration, so that the final fade's last callback is due before
\* the tick that brings remainingSeconds to 0, and the fade ends at gain 0; once
\* the stop made by that tick has run its continuations with no device fault, the
\* resource is unloaded, activeSound is null, no timer is left and isPlaying is false.
B_C17_FinalFadeThenIdle ==
    /\ [][B_LoneTick
            => LET next == state.remainingSeconds - 1
               IN (next \in 1..TIMER_FINAL_FADE_SECONDS /\ ~finalFadeStarted)
                     => B_FinalFadeInstalled(next)]_vars
    /\ [](\A i \in 1..B_MaxFades :
            B_fades[i].live => B_FADE_STEPS * B_stepMs(B_fades[i].ms) <= B_fades[i].ms)
    /\ [][(B_ncalls' = 0 /\ B_fadeTimer # 0 /\ ~B_fades'[B_fadeTimer].live)
            => currentVolume' = 0]_vars
    /\ []((B_ncalls = 0 /\ B_nfaults = 0 /\ B_cdLive = 0 /\ B_Settled)
            => /\ activeSound = 0 /\ B_loaded = {} /\ B_fadeTimer = 0
               /\ ~state.isPlaying /\ state.remainingSeconds = 0)

\* C17: the tick from 9 to 8 seconds has started the 8-second final fade in a
\* session in which nothing else was called
B_C17_FinalFadeRunning ==
    /\ B_ncalls = 0 /\ finalFadeStarted /\ B_fadeTimer # 0
    /\ B_fades[B_fadeTimer].target = 0
    /\ B_fades[B_fadeTimer].ms = TIMER_FINAL_FADE_SECONDS * B_MS_PER_SECOND
    /\ state.remainingSeconds = TIMER_FINAL_FADE_SECONDS

\* The start call is inside its fade-in (line 80): awaiting the status read or
\* the last step of the fade.
A_StartFading ==
    \E t \in BagToSet(tasks) : t.op = "start" /\ t.pc \in {"start.getStatusAsync", "start.fadeWait"}

\* C16: after a start with no other operation called, remainingSeconds is
\* still the duration passed to start when the start fade completes: no
\* countdown tick changes it while the start call is inside its fade-in.
A_C16_StartFadeKeepsRemaining ==
    [][(ncalls = 1 /\ nfaults = 0 /\ A_StartFading /\ A_countdownTick)
          => remainingSeconds' = remainingSeconds]_vars


\* The controller plays with nothing pending: no call is suspended and no fade
\* is scheduled.
A_PlayingSteady ==
    /\ isPlaying /\ ~isPaused
    /\ sound # 0 /\ sound \in loaded
    /\ tasks = EmptyBag
    /\ fadeTimer = 0

\* C18: a target volume set while Paused is the gain of the device once the
\* next resume() (or the next start) has resolved: whenever the controller plays
\* with nothing pending, the gain last commanded to its sound is targetVolume.
A_C18_PausedTargetApplied ==
    (nfaults = 0 /\ A_PlayingSteady) => volumeOf[sound] = Gain(targetVolume)


\* C20: at most one loop-restart seek is in flight at any time, whatever the
\* interleaving with stop, start and the delayed release of the latch.
A_C20_OneSeekInFlight == SeeksInFlight(WA) <= 1


\* ------------------------------------------------------ claims C21 .. C30

\* a stop is suspended in the teardown of the sound, lines 257-263
A_TearingDown ==
    \E t \in BagToSet(tasks) :
        t.pc \in {"stop.setPositionAsync", "stop.stopAsync", "stop.unloadAsync"}

\* C21: both timer handles are cleared when a stop suspends in the first device
\* call of its teardown, so that no fade callback and no countdown callback can
\* fire while the teardown is pending.
A_C21_TimersClearedAtTeardown ==
    [][(~A_TearingDown /\ A_TearingDown') => (fadeTimer' = 0 /\ ~countdownTimer')]_vars


\* the public calls whose promise has not settled
A_PublicPending(b) ==
    CopiesOf({t \in BagToSet(b) : t.op \in {"start", "stopManual", "dispose", "pause", "resume"}}, b)

\* C22: a rejection of getStatusAsync is swallowed: it does not take start into
\* its catch block (which calls onError and stops the session) and it settles no
\* public call's promise.
A_C22_StatusRejectionSwallowed ==
    [][(nfaults' > nfaults /\ (A_start_getStatusAsync \/ A_stop_getStatusAsync))
          => /\ \A t \in BagToSet(tasks') : t.op # "catch"
             /\ A_PublicPending(tasks') >= A_PublicPending(tasks)]_vars


\* the 40 ms timeouts of near-end chains that have not fired
A_ReleasesPending(b) == CopiesOf({t \in BagToSet(b) : t.pc = "seek.release"}, b)

B_StartInFlight == \E t \in BagToSet(B_tasks) : t.op = "start"

\* C24: resume() called while a start is loading or fading in is ignored: it
\* issues no device call, so no call is left suspended by it, and it changes
\* neither the timers, the fades, the gain nor the emitted state.
B_C24_ResumeOnlyWhenPaused ==
    [][(B_StartInFlight /\ B_resume)
          => /\ B_tasks' = B_tasks
             /\ UNCHANGED <<B_fadeTimer, B_fades, B_countdownTimer, B_cdLive, state,
                            currentVolume>>]_vars


\* C25: remainingSeconds is never negative; a countdown callback decrements it
\* by exactly 1 or leaves it at 0; and only a reset (start's line 46,
\* setDurationSeconds) ever increases it.
A_C25_RemainingCountsDown ==
    /\ [](remainingSeconds >= 0)
    /\ [][A_countdownTick => \/ remainingSeconds' = remainingSeconds - 1
                             \/ remainingSeconds = 0 /\ remainingSeconds' = 0]_vars
    /\ [][remainingSeconds' > remainingSeconds
             => (A_start_afterStop \/ A_setDurationSeconds)]_vars

\* C25 witness: with no call made since the start, the countdown has brought
\* remainingSeconds to 0 and the timer-end stop is under way.
A_C25_CountedToZero ==
    /\ ncalls = 0 /\ remainingSeconds = 0 /\ isPlaying
    /\ \E t \in BagToSet(tasks) : t.op = "timerEnd"


A_C27_SilentAtZero ==
    [][(ncalls = 0 /\ nfaults = 0 /\ sound \in loaded
        /\ A_countdownTick /\ remainingSeconds = 1 /\ remainingSeconds' = 0)
          => /\ volumeOf[sound] = 0
             /\ \A t \in BagToSet(tasks') :
                   t.op = "timerEnd" => t.pc \notin {"stop.getStatusAsync", "stop.fadeWait"}]_vars


\* the fade intervals of variant B that are scheduled
B_LiveFades == {i \in 1..B_MaxFades : B_fades[i].live}

\* C28: at most one countdown interval and at most one fade interval is
\* scheduled, and each is the one its handle holds.
B_C28_OneTimerOfEachKind ==
    /\ B_cdLive = (IF B_countdownTimer THEN 1 ELSE 0)
    /\ B_LiveFades = (IF B_fadeTimer # 0 THEN {B_fadeTimer} ELSE {})

\* C28 witness: resetTimer has replaced the final fade half-way down (its own
\* fade starts from a gain strictly between 0 and the target) while the
\* countdown is scheduled.
B_C28_FadeReplaced ==
    /\ B_countdownTimer /\ B_fadeTimer # 0
    /\ B_fades[B_fadeTimer].from > 0
    /\ B_fades[B_fadeTimer].from < B_fades[B_fadeTimer].target
    /\ \E t \in BagToSet(B_tasks) :
          t.op = "resetTimer" /\ t.pc = "reset.fadeWait" /\ t.fid = B_fadeTimer


\* C29: while the one call made on a running session, a start, has not settled,
\* no callback of the countdown fires.
B_C29_OldCountdownCancelled ==
    [][~(B_ncalls = 1 /\ B_StartInFlight /\ B_countdownTick)]_vars


\* the only call made is a start that the device has not failed
B_LoneStart(t) == B_ncalls = 1 /\ B_nfaults = 0 /\ t.op = "start"

\* C30: a start made alone on a session takes the reuse path (stopAsync,
\* setPositionAsync(0), playAsync on the loaded handle, no unload and no
\* createAsync) exactly when its source is the one the handle was created from;
\* with another source it stops and unloads the previous handle, and no handle
\* is loaded while its createAsync is pending.
B_C30_ReuseOrReplace ==
    /\ [](\A t \in BagToSet(B_tasks) : B_LoneStart(t) =>
            /\ t.pc = "start.createAsync" => B_loaded = {}
            /\ t.pc \in {"start.stopOld", "start.unloadOld"} => srcOf[t.snd] # t.src
            /\ t.pc \in {"start.stopSame", "start.setPositionAsync"} => srcOf[t.snd] = t.src)
    /\ [][(B_ncalls = 1 /\ B_nfaults = 0 /\ activeSound # 0
           /\ (B_start_stopSame \/ B_start_setPositionAsync))
             => /\ B_loaded' = B_loaded /\ activeSound' = activeSound
                /\ \E t \in BagToSet(B_tasks') :
                      /\ t.op = "start" /\ t.snd = activeSound
                      /\ t.pc \in {"start.setPositionAsync", "start.playAsync"}]_vars

\* C30 witness: a start with the source of the running session has stopped and
\* rewound the loaded handle and is replaying it.
B_C30_HandleReplayed ==
    /\ B_ncalls = 1 /\ B_nfaults = 0 /\ state.isPlaying
    /\ activeSound = 1 /\ B_loaded = {1} /\ srcOf[1] = 1 /\ currentSource = 1
    /\ \E t \in BagToSet(B_tasks) :
          t.op = "start" /\ t.pc = "start.playAsync" /\ t.snd = 1 /\ t.src = 1


\* --------------------------------------------- fadeTo: one fade interval
\* One interval of fadeTo (sleep-aid-audio-controller.ts lines 211-244) taken by
\* itself, callback by callback.  clearFade() clears the interval this.fadeTimer
\* holds, which is another one once a later fadeTo has replaced it: the interval
\* then keeps calling back with currentStep above steps.  Volumes are hundredths.
FR_Grain == 25      \* start and target volumes are multiples of FR_Grain hundredths
FR_MaxSteps == 4    \* steps of a fade are 1..FR_MaxSteps
FR_Overrun == 3     \* callbacks of an interval after its last step

FR_Volumes == {v \in 0..Gain(10) : v % FR_Grain = 0}

InitFade ==
    /\ A_Constructed
    /\ A_Platform
    /\ B_Constructed
    /\ B_Platform
    /\ \E from \in FR_Volumes, to \in FR_Volumes, steps \in 1..FR_MaxSteps :
           fadeRun = FadeRun(from, to, steps)
    /\ limiter = Limiter(1, 1)
    /\ reminders = Reminders
    /\ aidStore = AidStore
    /\ gamification = DEFAULT_GAMIFICATION

\* the callback on a loaded sound, lines 232-236
FR_tick ==
    /\ fadeRun.step < fadeRun.steps + FR_Overrun
    /\ fadeRun' = [fadeRun EXCEPT
                      !.step = @ + 1,
                      !.gain = A_fadeGain(fadeRun.from, fadeRun.to, fadeRun.step + 1,
                                          fadeRun.steps)]
    /\ UNCHANGED <<varsA, varsB, limiter, reminders, aidStore, gamification>>

NextFade == FR_tick

SpecFade == InitFade /\ [][NextFade]_vars

\* ------------------------------------------------- rateLimit: one limiter
\* The middleware rateLimit(options) returns (part_006 lines 43-73), for the one
\* limiter the server makes (rateLimitAuth, lines 76-79).  The clock is Date.now().
RL_MaxLimit == 2    \* options.max is 1..RL_MaxLimit
RL_MaxWindow == 2   \* options.windowMs is 1..RL_MaxWindow ticks of the clock
RL_MaxNow == 5      \* the clock runs from 0 to RL_MaxNow
RL_MaxCount == 4    \* requests counted in one window

\* a limit that rejects the request that reaches it
RL_overLimitEarly(count, max) == count >= max

\* line 56: entry.count > options.max
RL_overLimit(count, max) == count > max

\* lines 45-52: the entry of the key, a fresh one when there is none or it has expired
RL_entry(l, k) ==
    LET entry == l.store[k]
    IN IF entry = NoEntry \/ entry.resetAt < l.now
       THEN [count |-> 0, resetAt |-> l.now + l.windowMs]
       ELSE entry

\* the history of a request of key k made now: a window lasts from its first
\* request until windowMs later, and a request after that starts the next one
RL_history(l, k) ==
    IF l.first[k] = -1 \/ l.now > l.first[k] + l.windowMs
    THEN [l EXCEPT !.first[k] = l.now, !.seen[k] = 1, !.wins[k] = Min(2, @ + 1)]
    ELSE [l EXCEPT !.seen[k] = @ + 1]

\* the middleware on a request of client key k, lines 44-72
RL_rateLimit(l, k) ==
    LET entry == [RL_entry(l, k) EXCEPT !.count = @ + 1]
        status == IF RL_overLimit(entry.count, l.max) THEN "429" ELSE "next"
    IN [RL_history(l, k) EXCEPT !.store[k] = entry,
                                !.last = [key |-> k, status |-> status]]

\* the cleanup interval, lines 10-16
RL_sweep(l) ==
    [l EXCEPT !.store = [k \in RL_Keys |->
                            IF l.store[k] # NoEntry /\ l.store[k].resetAt < l.now
                            THEN NoEntry
                            ELSE l.store[k]]]

InitLimiter ==
    /\ A_Constructed
    /\ A_Platform
    /\ B_Constructed
    /\ B_Platform
    /\ fadeRun = FadeRun(0, 0, 1)
    /\ \E max \in 1..RL_MaxLimit, windowMs \in 1..RL_MaxWindow :
           limiter = Limiter(max, windowMs)
    /\ reminders = Reminders
    /\ aidStore = AidStore
    /\ gamification = DEFAULT_GAMIFICATION

RL_Step(l) ==
    /\ limiter' = l
    /\ UNCHANGED <<varsA, varsB, fadeRun, reminders, aidStore, gamification>>

RL_request(k) ==
    /\ RL_entry(limiter, k).count < RL_MaxCount
    /\ RL_Step(RL_rateLimit(limiter, k))

RL_requestAny == \E k \in RL_Keys : RL_request(k)

RL_cleanup ==
    /\ RL_sweep(limiter) # limiter
    /\ RL_Step(RL_sweep(limiter))

RL_clock ==
    /\ limiter.now < RL_MaxNow
    /\ RL_Step([limiter EXCEPT !.now = @ + 1])

NextLimiter ==
    \/ RL_requestAny
    \/ RL_cleanup
    \/ RL_clock

SpecLimiter == InitLimiter /\ [][NextLimiter]_vars

\* ------------------------------------------------- the sleep-aid reminder
\* scheduleSleepAidReminder and cancelSleepAidReminder (part_000 lines 314-367) on a
\* device (Platform.OS is not "web").  A call is a record in reminders.tasks; the
\* storage or notification call it awaits takes effect when its promise settles.
RM_MaxCalls == 3    \* calls of scheduleSleepAidReminder and cancelSleepAidReminder

RM_Task(op, pc, id) == [op |-> op, pc |-> pc, id |-> id]

RM_At(pc) == {t \in BagToSet(reminders.tasks) : t.pc = pc}

\* the call settles
RM_return(r, t) == [r EXCEPT !.lastDone = t.op]

\* clearExistingReminder has returned: line 341 of schedule, line 366 of cancel
RM_cleared(r, t) ==
    IF t.op = "schedule"
    THEN AddTask(r, [t EXCEPT !.pc = "scheduleNotificationAsync", !.id = 0])
    ELSE RM_return(r, t)

\* line 315, entered from line 341 or 366
RM_clearExistingReminder(r, t) == AddTask(r, [t EXCEPT !.pc = "getItem"])

InitReminders ==
    /\ A_Constructed
    /\ A_Platform
    /\ B_Constructed
    /\ B_Platform
    /\ fadeRun = FadeRun(0, 0, 1)
    /\ limiter = Limiter(1, 1)
    /\ reminders = Reminders
    /\ aidStore = AidStore
    /\ gamification = DEFAULT_GAMIFICATION

RM_Step(r) ==
    /\ reminders' = r
    /\ UNCHANGED <<varsA, varsB, fadeRun, limiter, aidStore, gamification>>

\* scheduleSleepAidReminder(settings), lines 324-329
RM_schedule ==
    /\ reminders.ncalls < RM_MaxCalls
    /\ RM_Step(AddTask([reminders EXCEPT !.ncalls = @ + 1],
                       RM_Task("schedule", "getPermissionsAsync", 0)))

\* cancelSleepAidReminder(), lines 364-366, up to line 315
RM_cancel ==
    /\ reminders.ncalls < RM_MaxCalls
    /\ RM_Step(RM_clearExistingReminder([reminders EXCEPT !.ncalls = @ + 1],
                                        RM_Task("cancel", "", 0)))

\* lines 329-334: permissions.granted, or the request of line 333
RM_getPermissionsAsync ==
    \E t \in RM_At("getPermissionsAsync"), granted \in BOOLEAN :
        LET r == DelTask(reminders, t)
        IN RM_Step(IF granted
                   THEN RM_clearExistingReminder(r, t)
                   ELSE AddTask(r, [t EXCEPT !.pc = "requestPermissionsAsync"]))

\* lines 333-341: the throw of line 338 when the request is not granted
RM_requestPermissionsAsync ==
    \E t \in RM_At("requestPermissionsAsync"), granted \in BOOLEAN :
        LET r == DelTask(reminders, t)
        IN RM_Step(IF granted
                   THEN RM_clearExistingReminder(r, t)
                   ELSE RM_return(r, t))

\* lines 315-318: existingId is what is stored when getItem settles
RM_getItem ==
    \E t \in RM_At("getItem") :
        LET r == DelTask(reminders, t)
        IN RM_Step(IF reminders.stored = 0
                   THEN RM_cleared(r, t)
                   ELSE AddTask(r, [t EXCEPT !.pc = "cancelScheduledNotificationAsync",
                                             !.id = reminders.stored]))

\* lines 318-321: the notification is cancelled (a rejection is swallowed)
RM_cancelScheduledNotificationAsync ==
    \E t \in RM_At("cancelScheduledNotificationAsync") :
        LET r == DelTask(reminders, t)
        IN RM_Step(AddTask([r EXCEPT !.scheduled = @ \ {t.id}],
                           [t EXCEPT !.pc = "removeItem", !.id = 0]))

\* line 321
RM_removeItem ==
    \E t \in RM_At("removeItem") :
        RM_Step(RM_cleared([DelTask(reminders, t) EXCEPT !.stored = 0], t))

\* lines 349-361: the notification is scheduled and its id returned
RM_scheduleNotificationAsync ==
    \E t \in RM_At("scheduleNotificationAsync") :
        LET r == DelTask(reminders, t)
            id == r.nextId
        IN RM_Step(AddTask([r EXCEPT !.scheduled = @ \cup {id}, !.nextId = id + 1],
                           [t EXCEPT !.pc = "setItem", !.id = id]))

\* line 361
RM_setItem ==
    \E t \in RM_At("setItem") :
        RM_Step(RM_return([DelTask(reminders, t) EXCEPT !.stored = t.id], t))

NextReminders ==
    \/ RM_schedule
    \/ RM_cancel
    \/ RM_getPermissionsAsync
    \/ RM_requestPermissionsAsync
    \/ RM_getItem
    \/ RM_cancelScheduledNotificationAsync
    \/ RM_removeItem
    \/ RM_scheduleNotificationAsync
    \/ RM_setItem

SpecReminders == InitReminders /\ [][NextReminders]_vars

\* ------------------------------------------------ the sleep-aid storage
\* patchSleepAidState (sleep-aid-storage.ts lines 100-107) called by the screens.  A
\* call is a record in aidStore.tasks: the field and value of its patch, the await
\* it is suspended in and, once read, its copy of the state.  The item is read when
\* getItem settles and written when setItem settles.
AS_MaxCalls == 3    \* calls of patchSleepAidState
AS_MaxValue == 2    \* a patch sets its field to a value in 1..AS_MaxValue

\* getSleepAidState, lines 52-90, on the parsed item: a field whose value is not one
\* of its type's is replaced by its default
AS_parse(raw) ==
    [f \in AS_Fields |-> IF raw[f] \in 0..AS_MaxValue THEN raw[f]
                         ELSE DEFAULT_SLEEP_AID_STATE[f]]

\* line 104: { ...current, ...patch }
AS_merge(current, field, value) == [current EXCEPT ![field] = value]

InitAidStore ==
    /\ A_Constructed
    /\ A_Platform
    /\ B_Constructed
    /\ B_Platform
    /\ fadeRun = FadeRun(0, 0, 1)
    /\ limiter = Limiter(1, 1)
    /\ reminders = Reminders
    /\ aidStore = AidStore
    /\ gamification = DEFAULT_GAMIFICATION

AS_Step(a) ==
    /\ aidStore' = a
    /\ UNCHANGED <<varsA, varsB, fadeRun, limiter, reminders, gamification>>

\* patchSleepAidState(patch) up to the getItem of line 49 (lines 103 and 48-49)
AS_patchSleepAidState ==
    \E field \in AS_Fields, value \in 1..AS_MaxValue :
        /\ aidStore.ncalls < AS_MaxCalls
        /\ AS_Step(AddTask([aidStore EXCEPT !.ncalls = @ + 1],
                           [field |-> field, value |-> value, pc |-> "getItem",
                            next |-> DEFAULT_SLEEP_AID_STATE]))

\* getItem settles: lines 50-90 and 104-105 up to the setItem of line 97
AS_getItem ==
    \E t \in BagToSet(aidStore.tasks) :
        /\ t.pc = "getItem"
        /\ AS_Step(AddTask(DelTask(aidStore, t),
                           [t EXCEPT !.pc = "setItem",
                                     !.next = AS_merge(AS_parse(aidStore.stored),
                                                       t.field, t.value)]))

\* setItem settles: the item is written and the call returns (lines 97 and 106)
AS_setItem ==
    \E t \in BagToSet(aidStore.tasks) :
        /\ t.pc = "setItem"
        /\ AS_Step([DelTask(aidStore, t) EXCEPT
                       !.stored = t.next,
                       !.done = @ \cup {[field |-> t.field, value |-> t.value]}])

NextAidStore ==
    \/ AS_patchSleepAidState
    \/ AS_getItem
    \/ AS_setItem

SpecAidStore == InitAidStore /\ [][NextAidStore]_vars

\* ------------------------------------------------------------ the streak
\* updateStreak (part_000 lines 251-275) as endSleep calls it (sleep-context.tsx
\* lines 97 and 131-132): logDate is the UTC date of a session's start, here the
\* number of its day.
GM_MaxCalls == 5    \* calls of updateStreak
GM_FirstDay == 3    \* the first day a session can start on
GM_LastDay == 7     \* the last one

GM_Days == GM_FirstDay..GM_LastDay

\* lines 256-259: new Date(logDate) is midnight UTC, setDate(getDate() - 1) steps
\* back one day of the device's local calendar and toISOString() gives the UTC date
\* of the result: the day before logDate, or two days before it when the local step
\* crosses the end of daylight saving time (25 hours).
GM_yesterdayStr(logDate) == {logDate - 1, logDate - 2}

\* the same without the test of line 254
updateStreakAlways(g, logDate, yesterdayStr) ==
    LET current == IF g.lastLogDate = yesterdayStr \/ g.lastLogDate = EmptyDate
                   THEN g.currentStreak + 1
                   ELSE 1
    IN [g EXCEPT !.currentStreak = current,
                 !.longestStreak = IF current > @ THEN current ELSE @,
                 !.lastLogDate = logDate,
                 !.totalNightsLogged = @ + 1]

\* lines 252-274
updateStreak(g, logDate, yesterdayStr) ==
    IF g.lastLogDate = logDate
    THEN g
    ELSE LET current == IF g.lastLogDate = yesterdayStr \/ g.lastLogDate = EmptyDate
                        THEN g.currentStreak + 1
                        ELSE 1
         IN [g EXCEPT !.currentStreak = current,
                      !.longestStreak = IF current > @ THEN current ELSE @,
                      !.lastLogDate = logDate,
                      !.totalNightsLogged = @ + 1]

InitStreak ==
    /\ A_Constructed
    /\ A_Platform
    /\ B_Constructed
    /\ B_Platform
    /\ fadeRun = FadeRun(0, 0, 1)
    /\ limiter = Limiter(1, 1)
    /\ reminders = Reminders
    /\ aidStore = AidStore
    /\ gamification = DEFAULT_GAMIFICATION

\* updatedGam = Gamification.updateStreak(updatedGam, dateStr), sleep-context.tsx line 132
GM_call(logDate, yesterdayStr) ==
    /\ gamification.ncalls < GM_MaxCalls
    /\ gamification' = [updateStreak(gamification, logDate, yesterdayStr)
                           EXCEPT !.ncalls = @ + 1]
    /\ UNCHANGED <<varsA, varsB, fadeRun, limiter, reminders, aidStore>>

GM_updateStreak ==
    \E logDate \in GM_Days : \E yesterdayStr \in GM_yesterdayStr(logDate) :
        GM_call(logDate, yesterdayStr)

NextStreak == GM_updateStreak

SpecStreak == InitStreak /\ [][NextStreak]_vars

\* ------------------------------------------------------ claims C31 .. C39

\* C31: with resetTimer the only call made on the session, no countdown
\* interval is scheduled once the session's resource has been unloaded and
\* activeSound is null, whenever the old countdown reached zero.
B_C31_NoCountdownAfterUnload ==
    (B_ncalls = 1 /\ B_nfaults = 0 /\ ~disposed /\ activeSound = 0 /\ B_loaded = {})
        => (~B_countdownTimer /\ B_cdLive = 0)


\* C32: a countdown timer exists only while a session is playing: a non-null
\* countdownTimer implies a non-null sound, isPlaying and not isPaused.
A_C32_CountdownOnlyWhilePlaying ==
    (nfaults = 0 /\ countdownTimer) => (sound # 0 /\ isPlaying /\ ~isPaused)


\* the playAsync calls of restart chains that have not settled
A_SeekPlays(b) == CopiesOf({t \in BagToSet(b) : t.pc = "seek.playAsync"}, b)

\* the controller reports Paused: pause() has resolved and resume() has not been
\* called
A_ReportsPaused ==
    /\ isPaused /\ isPlaying /\ sound # 0
    /\ \A t \in BagToSet(tasks) : t.op \notin {"pause", "resume"}

\* C33: while the controller reports Paused, the continuation of a restart
\* chain's setPositionAsync issues no playAsync.
A_C33_NoPlayWhilePaused ==
    [][(A_ReportsPaused /\ A_seek_setPositionAsync)
          => A_SeekPlays(tasks') <= A_SeekPlays(tasks)]_vars


\* C34: a start or stopManual call awaiting a fade is never left awaiting an
\* interval that has been cleared (nothing would resolve its promise, so the
\* promise the call returned would never settle).
A_C34_NoStrandedCall ==
    \A t \in BagToSet(tasks) :
        (t.op \in {"start", "stopManual"} /\ t.pc \in {"start.fadeWait", "stop.fadeWait"})
            => (t.fid # 0 /\ fades[t.fid].live)

\* C35: every gain a fade callback passes to setVolumeAsync lies in [0, 1], for every
\* start volume, target and step count, the callbacks after the last step included.
A_C35_GainInRange ==
    fadeRun.step > 0 => fadeRun.gain \in 0..Gain(10)

\* C35: a callback after the last step of a fade between two different volumes
A_C35_TickPastLastStep ==
    /\ fadeRun.step > fadeRun.steps
    /\ fadeRun.from # fadeRun.to
    /\ fadeRun.gain = fadeRun.to

\* C36: a request of a client key is passed to next() exactly when it is among the
\* first options.max requests of that key's window, and is answered 429 otherwise; the
\* first request after resetAt is counted as 1; the entries of the other keys stay
\* as they are.
RL_C36_FirstMaxPassed ==
    [][\A k \in RL_Keys :
          RL_request(k) =>
              /\ limiter'.last.status = IF limiter'.seen[k] <= limiter.max
                                        THEN "next" ELSE "429"
              /\ limiter'.store[k].count = limiter'.seen[k]
              /\ limiter'.wins[k] # limiter.wins[k] =>
                     limiter'.store[k] = [count |-> 1,
                                          resetAt |-> limiter.now + limiter.windowMs]
              /\ \A j \in RL_Keys \ {k} : limiter'.store[j] = limiter.store[j]]_vars

\* C36: a key is answered 429 in its second window while another key is within its limit
RL_C36_RejectedInSecondWindow ==
    \E k \in RL_Keys, j \in RL_Keys :
        /\ k # j
        /\ limiter.last = [key |-> k, status |-> "429"]
        /\ limiter.wins[k] = 2
        /\ limiter.store[j] # NoEntry
        /\ limiter.store[j].count <= limiter.max

\* C37: once every schedule and cancel call made has settled, at most one
\* notification is scheduled and it is the one whose id is stored; when the call that
\* settled last is a cancel, none is scheduled and no id is stored.
RM_C37_OneReminder ==
    reminders.tasks = EmptyBag =>
        /\ reminders.scheduled \subseteq {reminders.stored}
        /\ reminders.lastDone = "cancel" =>
               (reminders.scheduled = {} /\ reminders.stored = 0)

\* C38: once two patch calls that set different fields have both resolved, the
\* stored state contains the field of each.
AS_C38_BothPatchesStored ==
    (aidStore.ncalls = 2 /\ aidStore.tasks = EmptyBag)
        => \A p \in aidStore.done, q \in aidStore.done :
               p.field # q.field => aidStore.stored[p.field] = p.value

\* C39: after every updateStreak call made from the default data on, longestStreak >=
\* currentStreak >= 1; a call whose logDate differs from lastLogDate adds exactly 1 to
\* totalNightsLogged and one whose logDate equals it returns the data unchanged.
GM_C39_StreakKept ==
    [][\A logDate \in GM_Days : \A yesterdayStr \in GM_yesterdayStr(logDate) :
          GM_call(logDate, yesterdayStr) =>
              /\ gamification'.longestStreak >= gamification'.currentStreak
              /\ gamification'.currentStreak >= 1
              /\ logDate # gamification.lastLogDate =>
                     gamification'.totalNightsLogged = gamification.totalNightsLogged + 1
              /\ logDate = gamification.lastLogDate =>
                     [gamification' EXCEPT !.ncalls = gamification.ncalls] = gamification]_vars

\* C39: a streak has been broken and a date has been logged twice in a row
GM_C39_BrokenStreakAndRepeat ==
    /\ gamification.longestStreak > gamification.currentStreak
    /\ gamification.currentStreak >= 1
    /\ gamification.ncalls > gamification.totalNightsLogged

====
